---- MODULE Spec2Model ----
(***************************************************************************)
(* Model of the eWaterCycle HBV plugin:                                    *)
(*   src/src/ewatercycle_HBV/model.py    HBVMethods (_config,              *)
(*       _make_cfg_file, parameters, states, finalize)                     *)
(*   src/src/ewatercycle_HBV/forcing.py  HBVForcing.to_xarray              *)
(*                                                                         *)
(* A Python str is a sequence of one-character strings, so that str(),     *)
(* ",".join(), .split(",") and the f-string date are computed and not      *)
(* assumed to round-trip.  A number is a record: an int [t |-> "int",      *)
(* v |-> n], or a float with one decimal digit [t |-> "float", v |-> n]    *)
(* holding n tenths (1.5 is v = 15).  A one-character str element of a     *)
(* list is [t |-> "chr", v |-> c].                                         *)
(***************************************************************************)
EXTENDS Integers, Sequences, FiniteSets, TLC

VARIABLES
    config,        \* HBVMethods._config: key -> [ty |-> "str" | "list", val]
    fs,            \* the file system: path -> written document
    kwargs,        \* the keyword arguments of the last _make_cfg_file call
    result,        \* the outcome of the last _make_cfg_file call
    bmi,           \* the _bmi attribute: "unset", "held" or "deleted"
    fin,           \* what the last finalize call did, and its outcome
    directory,     \* HBVForcing.directory: <<>> is None, <<d>> is a path d
    forcing_file,  \* HBVForcing.forcing_file: <<>> is None, <<f>> a name
    fileRows,      \* the rows of the forcing text file, cells in tenths
    ds             \* the outcome of the last to_xarray call

vars == <<config, fs, kwargs, result, bmi, fin,
          directory, forcing_file, fileRows, ds>>

cfgVars == <<config, fs, kwargs, result>>
bmiVars == <<bmi, fin>>
forcingVars == <<directory, forcing_file, fileRows, ds>>

(***************************************************************************)
(* Bounds of the model.                                                    *)
(***************************************************************************)
\* argument vectors have lengths within LenSlack of the required length
LenSlack == 1
\* a forcing file has 1..MaxRows rows
MaxRows == 2

(***************************************************************************)
(* Python strings and numbers.                                             *)
(***************************************************************************)
Digits == <<"0", "1", "2", "3", "4", "5", "6", "7", "8", "9">>

RECURSIVE NatStr(_)
\* str(n) of a non-negative int
NatStr(n) ==
    IF n < 10 THEN <<Digits[n + 1]>>
    ELSE NatStr(n \div 10) \o <<Digits[(n % 10) + 1]>>

DigitVal(c) == (CHOOSE i \in 1..10 : Digits[i] = c) - 1

RECURSIVE StrNat(_)
\* int(s) of a string of digits
StrNat(s) ==
    IF Len(s) = 1 THEN DigitVal(s[1])
    ELSE 10 * StrNat(SubSeq(s, 1, Len(s) - 1)) + DigitVal(s[Len(s)])

\* str(el) of a list element
Str(el) ==
    CASE el.t = "int"   -> NatStr(el.v)
      [] el.t = "float" -> NatStr(el.v \div 10) \o <<".">> \o NatStr(el.v % 10)
      [] el.t = "chr"   -> <<el.v>>

RECURSIVE Join(_, _)
\* sep.join(strs)
Join(sep, strs) ==
    IF Len(strs) = 0 THEN <<>>
    ELSE IF Len(strs) = 1 THEN strs[1]
    ELSE strs[1] \o sep \o Join(sep, Tail(strs))

RECURSIVE Split(_, _)
\* s.split(c) for a one-character separator c
Split(s, c) ==
    IF \A i \in 1..Len(s) : s[i] # c THEN <<s>>
    ELSE LET i == CHOOSE k \in 1..Len(s) :
                      s[k] = c /\ \A j \in 1..(k - 1) : s[j] # c
         IN <<SubSeq(s, 1, i - 1)>> \o Split(SubSeq(s, i + 1, Len(s)), c)

\* dict(zip(names, values)).items(): zip stops at the shorter argument
ZipItems(names, values) ==
    LET n == IF Len(names) < Len(values) THEN Len(names) ELSE Len(values)
    IN [i \in 1..n |-> [name |-> names[i], value |-> values[i]]]

StrVal(s) == [ty |-> "str", val |-> s]
ListVal(l) == [ty |-> "list", val |-> l]

(***************************************************************************)
(* model.py: the configuration builder.                                    *)
(***************************************************************************)
HBV_PARAMS == <<"Imax", "Ce", "Sumax", "Beta", "Pmax", "Tlag", "Kf", "Ks", "FM">>

HBV_STATES == <<"Si", "Su", "Sf", "Ss", "Sp">>

\* the keys of _config, in the dict's insertion order
ConfigKeys == <<"precipitation_file", "potential_evaporation_file",
                "mean_temperature_file", "parameters", "initial_storage">>

KeySet == {ConfigKeys[i] : i \in 1..Len(ConfigKeys)}

\* the class default of _config: every entry the empty string
DefaultConfig == [k \in KeySet |-> StrVal(<<>>)]

\* the forcing object of the model: a directory and a file name per variable
ModelForcing ==
    [directory |-> <<"forcing_dir">>,
     pr |-> "pr.nc", evspsblpot |-> "evspsblpot.nc", tas |-> "tas.nc"]

\* the run's configuration directory, self._cfg_dir
CfgDir == <<"cfg_dir">>

\* pathlib: p / name, and str(p)
PathJoin(p, name) == Append(p, name)

PathStr(p) == Join(<<"/">>, [i \in 1..Len(p) |-> <<p[i]>>])

\* a length check that only rejects vectors that are too short
ParametersInvalid_TooShortOnly(kw) == Len(kw.parameters) < 9

\* len(list(kwargs["parameters"])) != 9
ParametersInvalid(kw) == Len(kw.parameters) # 9

\* len(list(kwargs["initial_storage"])) != 5
StorageInvalid(kw) == Len(kw.initial_storage) # 5

IntEl(n) == [t |-> "int", v |-> n]

\* a builder that keeps the stored entry when initial_storage is omitted
InitialStorage_Retained(kw, cfg) ==
    IF "initial_storage" \in DOMAIN kw
    THEN kw.initial_storage
    ELSE [i \in 1..Len(cfg["initial_storage"].val) |->
             [t |-> "chr", v |-> cfg["initial_storage"].val[i]]]

\* the list stored under "initial_storage" before it is joined
InitialStorage(kw, cfg) ==
    IF "initial_storage" \in DOMAIN kw
    THEN kw.initial_storage
    ELSE <<IntEl(0), IntEl(0), IntEl(0), IntEl(0), IntEl(0)>>

\* a join with ", " in place of ","
Serialize_CommaSpace(lst) == Join(<<",", " ">>, [i \in 1..Len(lst) |-> Str(lst[i])])

\* ",".join(str(el) for el in lst)
Serialize(lst) == Join(<<",">>, [i \in 1..Len(lst) |-> Str(lst[i])])

\* a configuration file of another name
ConfigFile_OtherName == Append(<<"cfg_dir">>, "config.json")

\* config_file = self._cfg_dir / "HBV_config.json"
ConfigFile == PathJoin(CfgDir, "HBV_config.json")

\* json.dumps(cfg): the members of the JSON object, in the dict's order
JsonDumps(cfg) ==
    [i \in 1..Len(ConfigKeys) |-> [key |-> ConfigKeys[i], value |-> cfg[ConfigKeys[i]]]]

\* config_file.open(mode="w") and f.write(doc)
WriteFile(fsys, path, doc) ==
    [p \in (DOMAIN fsys) \cup {path} |-> IF p = path THEN doc ELSE fsys[p]]

\* a call that opens (and so truncates) the file before it validates
RaiseValueError_FileOpened(cfg, fsys, msg) ==
    [config |-> cfg, fs |-> WriteFile(fsys, <<"cfg_dir", "HBV_config.json">>, <<>>),
     result |-> [kind |-> "ValueError", path |-> <<>>, msg |-> msg]]

\* raise ValueError(msg): the call ends, with what it had assigned so far
RaiseValueError(cfg, fsys, msg) ==
    [config |-> cfg, fs |-> fsys,
     result |-> [kind |-> "ValueError", path |-> <<>>, msg |-> msg]]

\* _make_cfg_file(**kw) on the configuration cfg and the file system fsys
MakeCfgOutcome(kw, cfg, fsys) ==
    IF "parameters" \notin DOMAIN kw
    THEN RaiseValueError(cfg, fsys, "The model needs the parameters argument")
    ELSE IF ParametersInvalid(kw)
    THEN RaiseValueError(cfg, fsys, "Incorrect number of parameters provided.")
    ELSE
      LET c1 == [cfg EXCEPT !["parameters"] = ListVal(kw.parameters)]
      IN
      IF "initial_storage" \in DOMAIN kw /\ StorageInvalid(kw)
      THEN RaiseValueError(c1, fsys, "The model needs 5 initial storage terms.")
      ELSE
        LET c2 == [c1 EXCEPT !["initial_storage"] = ListVal(InitialStorage(kw, c1))]
            c3 == [c2 EXCEPT !["initial_storage"] = StrVal(Serialize(c2["initial_storage"].val))]
            c4 == [c3 EXCEPT !["parameters"] = StrVal(Serialize(c3["parameters"].val))]
            c5 == [c4 EXCEPT
                     !["precipitation_file"] =
                         StrVal(PathStr(PathJoin(ModelForcing.directory, ModelForcing.pr))),
                     !["potential_evaporation_file"] =
                         StrVal(PathStr(PathJoin(ModelForcing.directory, ModelForcing.evspsblpot))),
                     !["mean_temperature_file"] =
                         StrVal(PathStr(PathJoin(ModelForcing.directory, ModelForcing.tas)))]
        IN [config |-> c5,
            fs |-> WriteFile(fsys, ConfigFile, JsonDumps(c5)),
            result |-> [kind |-> "ok", path |-> ConfigFile, msg |-> ""]]

\* the parameters property: dict(zip(HBV_PARAMS, _config["parameters"].split(',')))
Parameters(cfg) ==
    IF cfg["parameters"].ty = "str"
    THEN [kind |-> "ok", items |-> ZipItems(HBV_PARAMS, Split(cfg["parameters"].val, ","))]
    ELSE [kind |-> "AttributeError", items |-> <<>>]

\* the states property: dict(zip(HBV_STATES, _config["initial_storage"].split(',')))
States(cfg) ==
    IF cfg["initial_storage"].ty = "str"
    THEN [kind |-> "ok", items |-> ZipItems(HBV_STATES, Split(cfg["initial_storage"].val, ","))]
    ELSE [kind |-> "AttributeError", items |-> <<>>]

(***************************************************************************)
(* The arguments the model offers to _make_cfg_file.                       *)
(***************************************************************************)
\* the numbers an argument vector is built from: 0, 1.5 and 12
Numbers == <<[t |-> "int", v |-> 0], [t |-> "float", v |-> 15], [t |-> "int", v |-> 12]>>

\* the vector of length n that starts at the k-th number and cycles
Vector(n, k) == [i \in 1..n |-> Numbers[((i + k) % Len(Numbers)) + 1]]

\* the offsets the vectors start at
Offsets == {0, 1}

ParamVectors ==
    {Vector(n, k) : n \in (9 - LenSlack)..(9 + LenSlack), k \in Offsets}

StorageVectors ==
    {Vector(n, k) : n \in (5 - LenSlack)..(5 + LenSlack), k \in Offsets}

NoKwargs == [k \in {} |-> <<>>]

KwargsSet ==
    {NoKwargs}
    \cup {[parameters |-> p] : p \in ParamVectors}
    \cup {[initial_storage |-> s] : s \in StorageVectors}
    \cup {[parameters |-> p, initial_storage |-> s] : p \in ParamVectors, s \in StorageVectors}

(***************************************************************************)
(* model.py: the engine handle and finalize.                               *)
(***************************************************************************)
\* a finalize that deletes the handle in a finally clause
FinalizeOutcome_Finally(b, engineOk) ==
    IF b # "held"
    THEN [bmi |-> b, trace |-> <<>>, result |-> "AttributeError"]
    ELSE IF engineOk
    THEN [bmi |-> "deleted",
          trace |-> <<"bmi.finalize:call", "bmi.finalize:return", "del _bmi">>,
          result |-> "ok"]
    ELSE [bmi |-> "deleted",
          trace |-> <<"bmi.finalize:call", "bmi.finalize:raise", "del _bmi">>,
          result |-> "EngineFailure"]

\* finalize on the handle state b; engineOk: whether the engine's own
\* finalize returns (TRUE) or raises (FALSE)
FinalizeOutcome(b, engineOk) ==
    IF b # "held"
    THEN \* self._bmi is not set: the attribute lookup raises
         [bmi |-> b, trace |-> <<>>, result |-> "AttributeError"]
    ELSE IF engineOk
    THEN [bmi |-> "deleted",
          trace |-> <<"bmi.finalize:call", "bmi.finalize:return", "del _bmi">>,
          result |-> "ok"]
    ELSE [bmi |-> b,
          trace |-> <<"bmi.finalize:call", "bmi.finalize:raise">>,
          result |-> "EngineFailure"]

(***************************************************************************)
(* The state machine of the model wrapper.                                 *)
(***************************************************************************)
NoDataset == [kind |-> "none", msg |-> "", time |-> <<>>, data_vars |-> [c \in {} |-> <<>>]]

Init ==
    /\ config = DefaultConfig
    /\ fs = [p \in {} |-> <<>>]
    /\ kwargs = NoKwargs
    /\ result = [kind |-> "none", path |-> <<>>, msg |-> ""]
    /\ bmi = "unset"
    /\ fin = [trace |-> <<>>, result |-> "none"]
    /\ directory = <<>>
    /\ forcing_file = <<"forcing.txt">>
    /\ fileRows = <<>>
    /\ ds = NoDataset

MakeCfgFile(kw) ==
    LET o == MakeCfgOutcome(kw, config, fs)
    IN /\ config' = o.config
       /\ fs' = o.fs
       /\ result' = o.result
       /\ kwargs' = kw
       /\ UNCHANGED <<bmiVars, forcingVars>>

\* the framework makes the engine handle once the configuration file is written
MakeBmi ==
    /\ ConfigFile \in DOMAIN fs
    /\ bmi # "held"
    /\ bmi' = "held"
    /\ UNCHANGED <<cfgVars, fin, forcingVars>>

Finalize(engineOk) ==
    LET o == FinalizeOutcome(bmi, engineOk)
    IN /\ bmi' = o.bmi
       /\ fin' = [trace |-> o.trace, result |-> o.result]
       /\ UNCHANGED <<cfgVars, forcingVars>>

Next ==
    \/ \E kw \in KwargsSet : MakeCfgFile(kw)
    \/ MakeBmi
    \/ \E engineOk \in BOOLEAN : Finalize(engineOk)

Spec == Init /\ [][Next]_vars

(***************************************************************************)
(* forcing.py: HBVForcing.to_xarray.  A cell of the forcing file is a      *)
(* number in tenths (2000 is 20000, 1.5 is 15), which is what loadtxt      *)
(* makes of it: a float.                                                   *)
(***************************************************************************)
ForcingNames == <<"year", "month", "day", "pr", "pev">>

\* np.loadtxt(fn): one row is squeezed to a 1-D array, more rows are 2-D
LoadTxt(rows) ==
    IF Len(rows) = 1
    THEN [ndim |-> 1, data |-> rows[1]]
    ELSE [ndim |-> 2, data |-> rows]

\* pd.DataFrame(arr, columns=names): a 1-D array is one column of values
DataFrame(arr, names) ==
    LET nrows == Len(arr.data)
        ncols == IF arr.ndim = 1 THEN 1 ELSE Len(arr.data[1])
    IN IF ncols # Len(names)
       THEN [kind |-> "ValueError", index |-> <<>>, cols |-> [c \in {} |-> <<>>]]
       ELSE [kind |-> "ok",
             index |-> [i \in 1..nrows |-> i - 1],
             cols |-> [c \in {names[j] : j \in 1..Len(names)} |->
                         LET j == CHOOSE k \in 1..Len(names) : names[k] = c
                         IN [i \in 1..nrows |-> arr.data[i][j]]]]

\* int(x) of a non-negative float in tenths
IntOf(x) == x \div 10

\* f'{int(x.year)}-{int(x.month)}-{int(x.day)}'
DateString(year, month, day) ==
    NatStr(IntOf(year)) \o <<"-">> \o NatStr(IntOf(month)) \o <<"-">> \o NatStr(IntOf(day))

\* pd.Timestamp(s) of a 'Y-M-D' string
Timestamp(s) ==
    LET parts == Split(s, "-")
    IN [year |-> StrNat(parts[1]), month |-> StrNat(parts[2]), day |-> StrNat(parts[3])]

\* whether timestamp a is before timestamp b
Before(a, b) ==
    \/ a.year < b.year
    \/ a.year = b.year /\ a.month < b.month
    \/ a.year = b.year /\ a.month = b.month /\ a.day < b.day

RECURSIVE SortTimes(_)
\* the timestamps of ts in increasing order (selection of the least, first)
SortTimes(ts) ==
    IF Len(ts) = 0 THEN <<>>
    ELSE LET i == CHOOSE k \in 1..Len(ts) : \A j \in 1..Len(ts) : ~Before(ts[j], ts[k])
         IN <<ts[i]>> \o SortTimes(SubSeq(ts, 1, i - 1) \o SubSeq(ts, i + 1, Len(ts)))

\* an index that is sorted after it is built
TimeIndex_Sorted(df) ==
    SortTimes([i \in 1..Len(df.index) |->
        Timestamp(DateString(df.cols["year"][i], df.cols["month"][i], df.cols["day"][i]))])

\* df_in.apply(lambda x: pd.Timestamp(...), axis=1): one timestamp per row
TimeIndex(df) ==
    [i \in 1..Len(df.index) |->
        Timestamp(DateString(df.cols["year"][i], df.cols["month"][i], df.cols["day"][i]))]

\* df_in.drop(columns=names)
DropColumns(df, names) ==
    [df EXCEPT !.cols = [c \in (DOMAIN df.cols) \ names |-> df.cols[c]]]

\* to_xarray() with the given directory, file name and file content
ToXarrayOutcome(dir, ff, rows) ==
    IF dir = <<>> \/ ff = <<>>
    THEN [kind |-> "ValueError", msg |-> "Directory or forcing_file is not set",
          time |-> <<>>, data_vars |-> [c \in {} |-> <<>>]]
    ELSE
      LET df0 == DataFrame(LoadTxt(rows), ForcingNames)
      IN IF df0.kind # "ok"
         THEN [kind |-> "ValueError", msg |-> "Shape of passed values",
               time |-> <<>>, data_vars |-> [c \in {} |-> <<>>]]
         ELSE
           LET df1 == [df0 EXCEPT !.index = TimeIndex(df0)]
               df2 == DropColumns(df1, {"year", "month", "day"})
           IN [kind |-> "ok", msg |-> "", time |-> df2.index, data_vars |-> df2.cols]

\* the dates and the (pr, pev) values the rows of a forcing file are made of
Dates == {<<1999, 12, 31>>, <<2000, 1, 1>>, <<2000, 1, 2>>}

Values == {<<15, 3>>, <<0, 5>>}

RowSet == {<<d[1] * 10, d[2] * 10, d[3] * 10, v[1], v[2]>> : d \in Dates, v \in Values}

RowSeqs == UNION {[1..n -> RowSet] : n \in 1..MaxRows}

InitForcing ==
    /\ config = DefaultConfig
    /\ fs = [p \in {} |-> <<>>]
    /\ kwargs = NoKwargs
    /\ result = [kind |-> "none", path |-> <<>>, msg |-> ""]
    /\ bmi = "unset"
    /\ fin = [trace |-> <<>>, result |-> "none"]
    /\ directory \in {<<>>, <<"forcing_dir">>}
    /\ forcing_file \in {<<>>, <<"forcing.txt">>}
    /\ fileRows \in RowSeqs
    /\ ds = NoDataset

ToXarray ==
    /\ ds' = ToXarrayOutcome(directory, forcing_file, fileRows)
    /\ UNCHANGED <<cfgVars, bmiVars, directory, forcing_file, fileRows>>

NextForcing == ToXarray

SpecForcing == InitForcing /\ [][NextForcing]_vars

(***************************************************************************)
(* The claims, C1 to C10.                                                  *)
(***************************************************************************)
\* the number of tokens of a comma-joined string value; 0 for a value
\* that is no string
TokenCount(v) == IF v.ty = "str" THEN Len(Split(v.val, ",")) ELSE 0

\* a token that reads as a number: digits with at most one "."
IsNumericToken(tok) ==
    /\ Len(tok) > 0
    /\ \A i \in 1..Len(tok) : tok[i] \in {Digits[d] : d \in 1..10} \cup {"."}
    /\ Cardinality({i \in 1..Len(tok) : tok[i] = "."}) <= 1

\* a step that is a _make_cfg_file call, and one that is a finalize call
MakeCfgStep == \E kw \in KwargsSet : MakeCfgFile(kw)

FinalizeStep == \E engineOk \in BOOLEAN : Finalize(engineOk)

\* C1: a _make_cfg_file call ends in a validation error exactly when
\* parameters is absent, or its length is not 9, or initial_storage is given
\* with a length that is not 5.
C1_ValidationErrorExactly ==
    result.kind # "none" =>
        (result.kind = "ValueError" <=>
            IF "parameters" \notin DOMAIN kwargs THEN TRUE
            ELSE IF Len(kwargs.parameters) # 9 THEN TRUE
            ELSE IF "initial_storage" \in DOMAIN kwargs
                 THEN Len(kwargs.initial_storage) # 5
                 ELSE FALSE)

\* a call with 10 parameters (and a good storage vector) has failed
C1_Witness ==
    /\ result.kind = "ValueError"
    /\ DOMAIN kwargs = {"parameters", "initial_storage"}
    /\ Len(kwargs.parameters) = 10
    /\ Len(kwargs.initial_storage) = 5

\* C2: after a successful call the parameters accessor gives the nine names
\* in order, each with the decimal string of the value at its position of
\* the input, and the states accessor does so for a given 5-vector.
C2_AccessorsRoundTrip ==
    result.kind = "ok" =>
        /\ Parameters(config) =
             [kind |-> "ok",
              items |-> [i \in 1..9 |->
                  [name |-> <<"Imax", "Ce", "Sumax", "Beta", "Pmax",
                              "Tlag", "Kf", "Ks", "FM">>[i],
                   value |-> Str(kwargs.parameters[i])]]]
        /\ "initial_storage" \in DOMAIN kwargs =>
             States(config) =
               [kind |-> "ok",
                items |-> [i \in 1..5 |->
                    [name |-> <<"Si", "Su", "Sf", "Ss", "Sp">>[i],
                     value |-> Str(kwargs.initial_storage[i])]]]

\* a build of (1.5, 12, 0, ...) and storage (12, 0, 1.5, ...) reads back
\* Imax = "1.5", Ce = "12", Sumax = "0" and Si = "12", Su = "0", Sf = "1.5"
C2_Witness ==
    /\ result.kind = "ok"
    /\ "initial_storage" \in DOMAIN kwargs
    /\ kwargs.parameters[1] = [t |-> "float", v |-> 15]
    /\ kwargs.initial_storage[1] = [t |-> "int", v |-> 12]
    /\ Len(Parameters(config).items) = 9
    /\ Parameters(config).items[1] = [name |-> "Imax", value |-> <<"1", ".", "5">>]
    /\ Parameters(config).items[2] = [name |-> "Ce", value |-> <<"1", "2">>]
    /\ Parameters(config).items[3] = [name |-> "Sumax", value |-> <<"0">>]
    /\ Len(States(config).items) = 5
    /\ States(config).items[1] = [name |-> "Si", value |-> <<"1", "2">>]
    /\ States(config).items[2] = [name |-> "Su", value |-> <<"0">>]
    /\ States(config).items[3] = [name |-> "Sf", value |-> <<"1", ".", "5">>]

\* C3: after a successful call that omits initial_storage, whatever calls
\* came before, the states accessor gives Si, Su, Sf, Ss, Sp, each "0".
C3_OmittedStorageIsZeros ==
    (result.kind = "ok" /\ "initial_storage" \notin DOMAIN kwargs) =>
        States(config) =
          [kind |-> "ok",
           items |-> [i \in 1..5 |->
               [name |-> <<"Si", "Su", "Sf", "Ss", "Sp">>[i], value |-> <<"0">>]]]

\* a build without initial_storage has succeeded and the states are zeros
C3_Witness ==
    /\ result.kind = "ok"
    /\ DOMAIN kwargs = {"parameters"}
    /\ config["initial_storage"] = StrVal(<<"0", ",", "0", ",", "0", ",", "0", ",", "0">>)
    /\ States(config).items[5] = [name |-> "Sp", value |-> <<"0">>]

\* the value of member k of a written JSON document
Member(doc, k) == doc[CHOOSE i \in 1..Len(doc) : doc[i].key = k].value

\* C4: after a successful call the file HBV_config.json of the configuration
\* directory holds a document of exactly the five keys, whose parameters
\* member is a comma-joined string of 9 numeric tokens and whose
\* initial_storage member one of 5, and the call returned that file's path.
C4_WrittenDocument ==
    result.kind = "ok" =>
        LET path == <<"cfg_dir", "HBV_config.json">>
        IN /\ result.path = path
           /\ path \in DOMAIN fs
           /\ Len(fs[path]) = 5
           /\ {fs[path][i].key : i \in 1..Len(fs[path])} =
                {"precipitation_file", "potential_evaporation_file",
                 "mean_temperature_file", "parameters", "initial_storage"}
           /\ TokenCount(Member(fs[path], "parameters")) = 9
           /\ TokenCount(Member(fs[path], "initial_storage")) = 5
           /\ \A k \in {"parameters", "initial_storage"} :
                \A i \in 1..TokenCount(Member(fs[path], k)) :
                    IsNumericToken(Split(Member(fs[path], k).val, ",")[i])

\* a build with int and float inputs has written the document
C4_Witness ==
    /\ result.kind = "ok"
    /\ result.path \in DOMAIN fs
    /\ Member(fs[result.path], "parameters").val =
         <<"1", ".", "5", ",", "1", "2", ",", "0", ",",
           "1", ".", "5", ",", "1", "2", ",", "0", ",",
           "1", ".", "5", ",", "1", "2", ",", "0">>
    /\ Member(fs[result.path], "precipitation_file").val = <<"forcing_dir", "/", "pr.nc">>

\* C5: in every reachable state the parameters entry of the configuration
\* is a comma-separated string of exactly 9 values and the initial_storage
\* entry one of exactly 5 values.
C5_ConfigAlwaysNineAndFive ==
    /\ TokenCount(config["parameters"]) = 9
    /\ TokenCount(config["initial_storage"]) = 5

\* C5, after a first successful build: the same statement, which then fails
\* at a build that passes the parameters check and fails the storage check.
C5_NineAndFiveOnceBuilt ==
    ConfigFile \in DOMAIN fs =>
        /\ TokenCount(config["parameters"]) = 9
        /\ TokenCount(config["initial_storage"]) = 5

\* C6: a call that fails validation leaves the file system as it was: no
\* file is made, and an existing file keeps its document.  (Every step
\* into a state whose last call failed is meant: the failed call itself,
\* and the steps of the engine handle after it, which write no file.)
C6_FailedCallWritesNothing ==
    [][result'.kind = "ValueError" => fs' = fs]_vars

\* a call has failed while the file of an earlier successful call exists,
\* and the file holds the earlier call's parameters, not the failed call's
C6_Witness ==
    /\ result.kind = "ValueError"
    /\ "parameters" \in DOMAIN kwargs
    /\ <<"cfg_dir", "HBV_config.json">> \in DOMAIN fs
    /\ Member(fs[<<"cfg_dir", "HBV_config.json">>], "parameters")
         # StrVal(Serialize(kwargs.parameters))

\* C10: a call that fails validation leaves the configuration unchanged,
\* and with it the results of the parameters and states accessors.
C10_FailedCallKeepsConfig ==
    [][(MakeCfgStep /\ result'.kind = "ValueError") =>
          /\ config' = config
          /\ Parameters(config').kind = Parameters(config).kind
          /\ States(config') = States(config)]_vars

\* C9, as claimed: each finalize call issues exactly one teardown call.
C9_EveryFinalizeOneTeardown ==
    [][FinalizeStep =>
          Cardinality({i \in 1..Len(fin'.trace) : fin'.trace[i] = "bmi.finalize:call"}) = 1]_vars

\* C9, amended: a finalize call made while the handle is held issues exactly
\* one teardown call and deletes the handle only after that call returned;
\* when the teardown raises, the failure is the call's outcome and the
\* handle is still held.  A finalize call made without a handle issues no
\* teardown call and fails.
C9_HeldFinalizeOneTeardown ==
    [][FinalizeStep =>
          LET t == fin'.trace
              calls == {i \in 1..Len(t) : t[i] = "bmi.finalize:call"}
              dels == {i \in 1..Len(t) : t[i] = "del _bmi"}
          IN IF bmi = "held"
             THEN /\ Cardinality(calls) = 1
                  /\ fin'.result \in {"ok", "EngineFailure"}
                  /\ \A d \in dels : \E r \in 1..(d - 1) : t[r] = "bmi.finalize:return"
                  /\ fin'.result = "ok" => (bmi' = "deleted" /\ dels # {})
                  /\ fin'.result = "EngineFailure" => (bmi' = "held" /\ dels = {})
             ELSE /\ calls = {}
                  /\ fin'.result = "AttributeError"
                  /\ bmi' = bmi]_vars

\* a finalize call on a held handle has failed in the engine
C9_Witness ==
    /\ bmi = "held"
    /\ fin.result = "EngineFailure"
    /\ fin.trace = <<"bmi.finalize:call", "bmi.finalize:raise">>

\* the dates of the rows of a forcing file, read off the cells
RowDates(rows) ==
    [i \in 1..Len(rows) |->
        [year |-> rows[i][1] \div 10, month |-> rows[i][2] \div 10, day |-> rows[i][3] \div 10]]

StrictlyIncreasing(ts) == \A i \in 1..(Len(ts) - 1) : Before(ts[i], ts[i + 1])

\* what the claim C7 says to_xarray returns for the rows
ExpectedDataset(rows) ==
    [kind |-> "ok", msg |-> "", time |-> RowDates(rows),
     data_vars |-> [c \in {"pr", "pev"} |->
         [i \in 1..Len(rows) |-> IF c = "pr" THEN rows[i][4] ELSE rows[i][5]]]]

Loaded == ds.kind # "none" /\ directory # <<>> /\ forcing_file # <<>>

\* C7: for a forcing file of one or more rows to_xarray returns a dataset
\* with one timestamp per row, in row order, the date of the row, and
\* exactly the data variables pr and pev with the rows' values.
C7_DatasetOfRows ==
    Loaded => ds = ExpectedDataset(fileRows)

\* C7 for files of two or more rows, where it holds
C7_DatasetOfTwoOrMoreRows ==
    (Loaded /\ Len(fileRows) >= 2) => ds = ExpectedDataset(fileRows)

\* C8, as claimed: the index of every returned dataset is strictly
\* increasing, without duplicate dates.
C8_IndexStrictlyIncreasing ==
    ds.kind = "ok" => StrictlyIncreasing(ds.time)

\* C8, amended: the index of a returned dataset is strictly increasing,
\* without duplicate dates, exactly when the dates of the rows of the input
\* file are: the loader neither sorts the rows nor drops a repeated date.
C8_IndexIncreasingIffRowsAre ==
    ds.kind = "ok" =>
        (StrictlyIncreasing(ds.time) <=> StrictlyIncreasing(RowDates(fileRows)))

\* the file of 1999-12-31 and 2000-01-01 is loaded with an increasing index
C8_Witness ==
    /\ ds.kind = "ok"
    /\ Len(ds.time) = 2
    /\ ds.time[1] = [year |-> 1999, month |-> 12, day |-> 31]
    /\ ds.time[2] = [year |-> 2000, month |-> 1, day |-> 1]
    /\ StrictlyIncreasing(ds.time)

====
